---- MODULE Spec2Model ----
(***************************************************************************)
(* Model of igloo_mcp.igloo.IglooClient: the paginated search              *)
(* (IglooClient.search), the page fetch (IglooClient.fetch_page and         *)
(* fetch_pages), IglooClient._request, IglooClient.authenticate, the       *)
(* truncation/continuation engine of the fetch tool, and of                *)
(* igloo_mcp.formatter: format_truncation_metadata, format_fetch_results   *)
(* and _truncate_text, each run as one call; one kind of run interleaves   *)
(* two calls on the same client.                                           *)
(*                                                                         *)
(* A search-result record is modelled by its position in the server's      *)
(* ordered result sequence (0, 1, 2, ...).  A URL is a tuple of            *)
(* one-character strings.  Python's None for `limit` is NoLimit.           *)
(***************************************************************************)
EXTENDS Integers, Sequences, FiniteSets, TLC

\* ------------------------------------------------------------------ bounds
MaxTotal    == 4   \* largest number of records the exact-paging server holds
MaxMore     == 2   \* most records numFound of an unconstrained server
                    \* counts beyond the page it comes with
MaxPageSize == 2   \* largest page size tried
MaxLimit    == 4   \* largest limit tried
MaxPageLen  == 2   \* most records an unconstrained server puts in one page
MaxUrls     == 3   \* most URLs handed to fetch_pages
MaxDoc      == 3   \* longest document handed to the truncation engine
MaxChars    == 3   \* largest max_chars budget and largest metadata count
MaxText     == 4   \* longest text and largest max_length of _truncate_text
MaxPages    == 2   \* most results handed to format_fetch_results
MaxShared   == 2   \* interleaved calls: largest page size and limit, most URLs

NoLimit  == -1     \* limit is None
NoOffset == -1     \* request without an "offset" parameter
NoNext   == -1     \* next_start_index is None

VARIABLES
    op,                   \* which call this run performs, one of Ops
    pc,                   \* position of the call
    \* ---- the server of the search endpoint
    honest,               \* TRUE: the server pages exactly and never fails
    T,                    \* number of records the honest server holds
    \* ---- arguments of search
    page_size,            \* pagination_page_size or self.page_size
    limit,                \* limit, NoLimit for None
    \* ---- locals of search
    requests,             \* offsets of the HTTP requests issued so far, in order
    first_page,           \* "results" of the first response
    results,              \* the list `results`
    total_results_found,
    results_to_fetch,
    offset,               \* loop variable of the fan-out loop
    tasks,                \* offsets of the coroutines in `tasks`, in order
    status,               \* per task: "pending" | "ok" | "failed"
    pages,                \* per task: "results" of its response
    completion,           \* task indices in the order they settled
    ret,                  \* the returned list (meaningful when pc = "done")
    first_response_json,  \* the body of the first response, once received
    later_found_more,     \* a fan-out response reported a larger numFound
    page_field,           \* per task: "results" of its response is
                          \* "absent" | "null" | "list" ("none": no body)
    params,               \* the dict `params`
    sent_params,          \* the params of each request issued, in order
    \* ---- fetch_pages
    urls,                 \* argument of fetch_pages
    fstatus,              \* per URL: "created" | "sent" | "content" | "error"
    frequests,            \* URLs for which an HTTP request was sent, in order
    fcompletion,          \* URL indices in the order they settled
    fret,                 \* the returned list (meaningful when pc = "done")
    \* ---- further arguments of search, argument of _request
    date_type,            \* updated_date_type: "none" | "pastWeek" | "dateRange"
    has_from,             \* updated_date_range_from is given
    has_to,               \* updated_date_range_to is given
    method,               \* method argument of a direct _request call
    \* ---- authenticate
    cookie,               \* the iglooAuth cookie of the client, "" if unset
    cookie0,              \* the cookie before the call
    auth_resp,            \* the authentication response, once received
    \* ---- the truncation/continuation engine (one continuation chain)
    doc,                  \* the converted document, a sequence of characters
    toc,                  \* its table of contents: sections in document order
    max_chars,            \* the budget of every call of the chain
    first_start,          \* start_index of the first call
    start_index,          \* start_index of the latest call
    window,               \* TruncationWindow of the latest call
    text,                 \* text returned by the latest call
    collected,            \* concatenation of the texts returned so far
    calls,                \* number of fetch calls made so far
    \* ---- format_truncation_metadata
    metadata,             \* its TruncationMetadata argument
    lines,                \* the lines of its result
    \* ---- _truncate_text
    long_text,            \* its `text` argument, a sequence of characters
    max_length,           \* its max_length argument
    truncated,            \* its result
    \* ---- format_fetch_results
    fetch_results,        \* its `results` argument
    total_count,          \* its total_count argument
    formatted,            \* its result
    \* ---- two calls interleaved on one client
    cargs,                \* per call: its kind and arguments
    cpc,                  \* per call: its position
    clocals,              \* per frame: the locals `results` and `tasks`, the
                          \* responses of the tasks and which have arrived
    cret,                 \* per call: the returned list
    overlapped            \* a call has made a step while the other was running

respVars   == <<first_response_json, later_found_more, page_field>>
paramVars  == <<params, sent_params>>
searchVars == <<honest, T, page_size, limit, requests, first_page, results,
                total_results_found, results_to_fetch, offset, tasks, status,
                pages, completion, ret, respVars, paramVars>>
fetchVars  == <<urls, fstatus, frequests, fcompletion, fret>>
cfgVars    == <<date_type, has_from, has_to, method>>
authVars   == <<cookie, cookie0, auth_resp>>
truncVars  == <<doc, toc, max_chars, first_start, start_index, window, text,
                collected, calls>>
fmtVars    == <<metadata, lines>>
textVars   == <<long_text, max_length, truncated>>
pagesVars  == <<fetch_results, total_count, formatted>>
sharedVars == <<cargs, cpc, clocals, cret, overlapped>>
laterVars  == <<textVars, pagesVars, sharedVars>>
otherVars  == <<cfgVars, authVars, truncVars, fmtVars, laterVars>>
vars       == <<op, pc, searchVars, fetchVars, otherVars>>

\* ----------------------------------------------------------------- helpers
Min(a, b) == IF a <= b THEN a ELSE b
Max(a, b) == IF a >= b THEN a ELSE b

\* ceil(a / b) for a >= 0, b >= 1
CeilDiv(a, b) == (a + b - 1) \div b

\* s[:n] for n >= 0
Take(s, n) == SubSeq(s, 1, Min(n, Len(s)))

\* the records at positions o .. o+n-1 of the server's result sequence
Page(o, n) == [k \in 1..n |-> o + k - 1]

RECURSIVE Concat(_)
\* list.extend over a sequence of lists
Concat(ss) == IF ss = <<>> THEN <<>> ELSE Head(ss) \o Concat(Tail(ss))

\* ------------------------------------------------------ the search server
FailedResponse == [ok |-> FALSE, hasResults |-> FALSE, resultsNull |-> FALSE,
                   results |-> <<>>, hasNumFound |-> FALSE, numFound |-> 0]

\* the server of claim C1: exactly the records o .. min(o+P, T)-1, numFound = T
HonestResponse(o) ==
    [ok |-> TRUE, hasResults |-> TRUE, resultsNull |-> FALSE,
     results |-> Page(o, Max(0, Min(page_size, T - o))),
     hasNumFound |-> TRUE, numFound |-> T]

\* any response: failure, or a JSON body whose fields may be absent and
\* whose "results" may be null; numFound is any count up to MaxMore
\* records beyond those of the page
AnyResponses(o) ==
    {FailedResponse}
    \cup UNION {{[ok |-> TRUE, hasResults |-> TRUE, resultsNull |-> FALSE,
                  results |-> Page(o, n),
                  hasNumFound |-> h, numFound |-> IF h THEN f ELSE 0] :
                   h \in BOOLEAN, f \in 0..(n + MaxMore)} :
                 n \in 0..MaxPageLen}
    \cup {[ok |-> TRUE, hasResults |-> n, resultsNull |-> n,
           results |-> <<>>,
           hasNumFound |-> h, numFound |-> IF h THEN f ELSE 0] :
            n \in BOOLEAN, h \in BOOLEAN, f \in 0..MaxMore}

ServerResponses(o) == IF honest THEN {HonestResponse(o)} ELSE AnyResponses(o)

\* ------------------------------------------------------------------- URLs
community == <<"h">>
UrlPool == { <<"h">>, <<"h", "/", "p">>, <<"h", "?", "q">>,
             <<"h", "x">>, <<"e", "/", "p">> }

StartsWith(s, p) == Len(s) >= Len(p) /\ SubSeq(s, 1, Len(p)) = p

\* the check reduced to url.startswith(self.community)
UrlIsValidByPrefix(url) == StartsWith(url, community)

\* _validate_community_url does not raise
UrlIsValid(url) ==
    \/ url = community
    \/ StartsWith(url, community \o <<"/">>)
    \/ StartsWith(url, community \o <<"?">>)

RECURSIVE SeqsUpTo(_, _)
SeqsUpTo(S, n) ==
    IF n = 0 THEN {<<>>}
    ELSE LET shorter == SeqsUpTo(S, n - 1)
         IN  shorter \cup {Append(s, x) : s \in shorter, x \in S}

\* ------------------------------------------------------------------- Init
\* the calls a run can perform
Ops == {"search", "fetch_pages", "request", "authenticate", "fetch",
        "format", "truncate_text", "format_results", "concurrent",
        "fetch_page"}

\* a TruncationWindow / TruncationMetadata value; next_start_index None is
\* NoNext, current_path None is ""
Window(st, returned, total, next, path, remaining) ==
    [status |-> st, chars_returned |-> returned, chars_total |-> total,
     next_start_index |-> next, current_path |-> path,
     remaining_sections |-> remaining]

\* before the first call of a chain
NoWindow == Window("none", 0, 0, NoNext, "", <<>>)

\* the metadata values format_truncation_metadata is tried on
MetadataPool ==
    { Window(st, r, t, n, p, rem) :
        st \in {"partial", "complete"}, r \in 0..MaxChars, t \in 0..MaxChars,
        n \in {NoNext} \cup (0..MaxChars), p \in {"", "A"},
        rem \in {<<>>, <<"B", "C">>} }

\* the body of an authentication response; `received` is FALSE before it
AuthResponse(rcv, ok, hasResp, hasKey, key) ==
    [received |-> rcv, ok |-> ok, hasResponse |-> hasResp,
     hasKey |-> hasKey, key |-> key]

NoAuthResponse == AuthResponse(FALSE, FALSE, FALSE, FALSE, "")

\* any authentication response: an HTTP failure, or a JSON body without a
\* "response" object, without a "sessionKey", with an empty or a real key
AuthResponses ==
    { AuthResponse(TRUE, FALSE, FALSE, FALSE, ""),
      AuthResponse(TRUE, TRUE, FALSE, FALSE, ""),
      AuthResponse(TRUE, TRUE, TRUE, FALSE, ""),
      AuthResponse(TRUE, TRUE, TRUE, TRUE, ""),
      AuthResponse(TRUE, TRUE, TRUE, TRUE, "new") }

\* one element of the list handed to format_fetch_results; a missing
\* "error" key and error None are hasError = FALSE
PageRecord(url, markdown, hasError, error) ==
    [url |-> url, markdown |-> markdown, hasError |-> hasError,
     error |-> error]

\* the results format_fetch_results is tried on: a page, a page with an
\* empty error, a failure, and a record that has both markdown and error
ResultPool ==
    { PageRecord(u, "m", FALSE, "") : u \in {"u", "v"} }
    \cup { PageRecord(u, "m", TRUE, "") : u \in {"u", "v"} }
    \cup { PageRecord(u, "", TRUE, "e") : u \in {"u", "v"} }
    \cup { PageRecord(u, "m", TRUE, "e") : u \in {"u", "v"} }

\* the dict `params` before it is built; a key that is not set is "none",
\* FALSE or NoOffset
NoParams == [limit |-> 0, query |-> "", updatedDateType |-> "none",
             updatedRange |-> FALSE, offset |-> NoOffset]

\* the result of format_fetch_results before any call
NotFormatted == [no_pages |-> FALSE, parts |-> <<>>]

\* an entry of a table of contents: a section label and its start offset
Section(label, start) == [label |-> label, start |-> start]

\* the tables of contents tried: none, one whose first section starts at 0,
\* one whose first section starts later and whose last starts at the end
TocPool ==
    { <<>>,
      <<Section("A", 0), Section("B", 2)>>,
      <<Section("A", 1), Section("B", 2), Section("C", MaxDoc)>> }

\* the two calls
Calls == {1, 2}

\* the arguments of one call: a search (T is what the server holds for its
\* query) or a fetch_pages
CallArgs(kind, total, lim, us) ==
    [kind |-> kind, T |-> total, limit |-> lim, urls |-> us]

SearchArgs ==
    { CallArgs("search", t, l, <<>>) :
        t \in 0..(MaxShared + 1), l \in {NoLimit, MaxShared} }

FetchPagesArgs ==
    { CallArgs("fetch_pages", 0, NoLimit, us) :
        us \in SeqsUpTo({<<"h", "/", "p">>, <<"e", "/", "p">>}, MaxShared) }

\* the locals of a frame before they are assigned
NoLocals == [results |-> <<>>, tasks |-> <<>>, pages |-> <<>>, got |-> {}]

Init ==
    /\ op \in Ops
    /\ pc = "start"
    /\ IF op = "search"
       THEN /\ page_size \in 1..MaxPageSize
            /\ limit \in {NoLimit} \cup (0..MaxLimit)
            /\ date_type \in {"none", "pastWeek", "dateRange"}
            /\ has_from \in BOOLEAN
            /\ has_to \in BOOLEAN
            \* the unconstrained server is tried on the search without a
            \* date filter, the exact-paging one on every date filter
            /\ honest \in IF date_type = "none" /\ ~has_from /\ ~has_to
                          THEN BOOLEAN ELSE {TRUE}
            \* T is what the exact-paging server holds
            /\ T \in IF honest THEN 0..MaxTotal ELSE {0}
       ELSE /\ honest = TRUE
            /\ T = 0
            \* self.page_size of the client the two calls share
            /\ page_size \in IF op = "concurrent" THEN 1..MaxShared ELSE {1}
            /\ limit = NoLimit
            /\ date_type = "none"
            /\ has_from = FALSE
            /\ has_to = FALSE
    \* the one URL of a direct fetch_page call is urls[1]
    /\ urls \in IF op = "fetch_pages" THEN SeqsUpTo(UrlPool, MaxUrls)
                ELSE IF op = "fetch_page" THEN {<<u>> : u \in UrlPool}
                ELSE {<<>>}
    /\ method \in IF op = "request"
                  THEN {"GET", "POST", "PUT", "DELETE", "PATCH", "get"}
                  ELSE {"GET"}
    /\ cookie0 \in IF op = "authenticate" THEN {"", "old"} ELSE {""}
    /\ cookie = cookie0
    /\ auth_resp = NoAuthResponse
    /\ doc \in IF op = "fetch" THEN SeqsUpTo({"a", "b"}, MaxDoc) ELSE {<<>>}
    /\ toc \in IF op = "fetch" THEN TocPool ELSE {<<>>}
    /\ max_chars \in IF op = "fetch" THEN 0..MaxChars ELSE {0}
    /\ first_start \in IF op = "fetch" THEN 0..(MaxDoc + 1) ELSE {0}
    /\ start_index = first_start
    /\ window = NoWindow
    /\ text = <<>>
    /\ collected = <<>>
    /\ calls = 0
    /\ metadata \in IF op = "format" THEN MetadataPool ELSE {NoWindow}
    /\ lines = <<>>
    /\ long_text \in IF op = "truncate_text"
                     THEN SeqsUpTo({"a", " "}, MaxText) ELSE {<<>>}
    /\ max_length \in IF op = "truncate_text" THEN 0..MaxText ELSE {0}
    /\ truncated = <<>>
    /\ fetch_results \in IF op = "format_results"
                         THEN SeqsUpTo(ResultPool, MaxPages) ELSE {<<>>}
    /\ total_count \in IF op = "format_results" THEN 0..MaxPages ELSE {0}
    /\ formatted = NotFormatted
    /\ cargs \in IF op = "concurrent"
                 THEN [Calls -> SearchArgs \cup FetchPagesArgs]
                 ELSE {[c \in Calls |-> CallArgs("search", 0, NoLimit, <<>>)]}
    /\ op = "concurrent" => cargs[1].kind = "search"
    /\ cpc = [c \in Calls |-> "start"]
    /\ clocals = [c \in Calls |-> NoLocals]
    /\ cret = [c \in Calls |-> <<>>]
    /\ overlapped = FALSE
    /\ requests = <<>>
    /\ first_page = <<>>
    /\ results = <<>>
    /\ total_results_found = 0
    /\ results_to_fetch = 0
    /\ offset = 0
    /\ tasks = <<>>
    /\ status = <<>>
    /\ pages = <<>>
    /\ completion = <<>>
    /\ ret = <<>>
    /\ first_response_json = FailedResponse
    /\ later_found_more = FALSE
    /\ page_field = <<>>
    /\ params = NoParams
    /\ sent_params = <<>>
    /\ fstatus = <<>>
    /\ frequests = <<>>
    /\ fcompletion = <<>>
    /\ fret = <<>>

\* ----------------------------------------------------------------- search
\* lines 183-187: updated_date_type is CUSTOM_RANGE and a bound is missing
DateRangeError(dt, from, to) == dt = "dateRange" /\ ~(from /\ to)

\* line 87: the method is one _request accepts
MethodIsValid(m) == m \in {"GET", "POST", "PUT", "DELETE"}

\* lines 168-194: the dict `params`; query, applications, parentHref and the
\* three flags are one fixed value "q"
Params(ps, dt, from, to) ==
    [limit |-> ps, query |-> "q", updatedDateType |-> dt,
     updatedRange |-> (dt = "dateRange" /\ from /\ to), offset |-> NoOffset]

\* lines 183-191: building the parameters raises ValueError
ConfigError ==
    /\ op = "search" /\ pc = "start"
    /\ DateRangeError(date_type, has_from, has_to)
    /\ pc' = "raised"
    /\ UNCHANGED <<op, searchVars, fetchVars, otherVars>>

\* the first request sent before the date range is looked at
SendFirstUnchecked ==
    /\ op = "search" /\ pc = "start"
    /\ requests' = Append(requests, NoOffset)
    /\ params' = Params(page_size, date_type, has_from, has_to)
    /\ sent_params' = Append(sent_params, params')
    /\ pc' = "first"
    /\ UNCHANGED <<op, honest, T, page_size, limit, first_page, results,
                   total_results_found, results_to_fetch, offset, tasks,
                   status, pages, completion, ret, respVars, fetchVars,
                   otherVars>>

\* lines 166-203: the parameters are built and the first request is sent,
\* without an offset parameter
SendFirst ==
    /\ op = "search" /\ pc = "start"
    /\ ~DateRangeError(date_type, has_from, has_to)
    /\ requests' = Append(requests, NoOffset)
    /\ params' = Params(page_size, date_type, has_from, has_to)
    /\ sent_params' = Append(sent_params, params')
    /\ pc' = "first"
    /\ UNCHANGED <<op, honest, T, page_size, limit, first_page, results,
                   total_results_found, results_to_fetch, offset, tasks,
                   status, pages, completion, ret, respVars, fetchVars,
                   otherVars>>

\* line 206: first_response_json.get("results") or []
FirstResults(resp) ==
    IF resp.hasResults /\ ~resp.resultsNull THEN resp.results ELSE <<>>

\* line 207: first_response_json.get("numFound", len(results))
TotalFound(resp, res) == IF resp.hasNumFound THEN resp.numFound ELSE Len(res)

\* line 237: response_json.get("results", []): the list, [] for an absent
\* field; for a null field it is None, here <<>> with PageField = "null"
PageResults(resp) == IF resp.hasResults THEN resp.results ELSE <<>>

\* what line 237 finds under "results" in the response of a task
PageField(resp) ==
    IF ~resp.ok THEN "none"
    ELSE IF ~resp.hasResults THEN "absent"
    ELSE IF resp.resultsNull THEN "null" ELSE "list"

\* line 237: results.extend(None) raises TypeError
ExtendRaises(fields) == \E i \in 1..Len(fields) : fields[i] = "null"

\* line 209: limit is not None and limit == 0
LimitIsZero(lim) == lim # NoLimit /\ lim = 0

\* line 212: limit is not None and len(results) >= limit
FirstPageSatisfies(lim, res) == lim # NoLimit /\ Len(res) >= lim

\* line 213 returning the whole first page instead of results[:limit]
FirstLimitUnsliced(res, lim) == res

\* line 213: results[:limit]
FirstLimit(res, lim) == Take(res, lim)

\* a given limit taken as the number to fetch, whatever total_results_found
ResultsToFetchLimitOnly(lim, total) == IF lim # NoLimit THEN lim ELSE total

\* lines 215-218
ResultsToFetch(lim, total) == IF lim # NoLimit THEN Min(lim, total) ELSE total

\* lines 239-242 slicing one element too far
TruncateOneMore(res, lim) == IF lim # NoLimit THEN Take(res, lim + 1) ELSE res

\* lines 239-242 without the final slice
TruncateNever(res, lim) == res

\* lines 239-242: results[:limit] if a limit is given, results otherwise
Truncate(res, lim) == IF lim # NoLimit THEN Take(res, lim) ELSE res

\* the fan-out begun at the first whole multiple of the page size
FirstOffsetByPageSize(res, ps) == ps

\* line 221: the start of range(len(results), results_to_fetch, page_size)
FirstOffset(res, ps) == Len(res)

\* lines 205-221 for one response, `lim` being the limit the checks read
HandleFirst(resp, lim) ==
    IF ~resp.ok
    THEN \* line 96: raise_for_status
         /\ pc' = "raised"
         /\ UNCHANGED <<first_page, results, total_results_found,
                        results_to_fetch, offset, ret, first_response_json>>
    ELSE LET res   == FirstResults(resp)
             total == TotalFound(resp, res)
         IN  /\ first_response_json' = resp
             /\ first_page' = res
             /\ results' = res
             /\ total_results_found' = total
             /\ IF LimitIsZero(lim)
                THEN /\ pc' = "done"
                     /\ ret' = <<>>
                     /\ UNCHANGED <<results_to_fetch, offset>>
                ELSE IF FirstPageSatisfies(lim, res)
                THEN /\ pc' = "done"
                     /\ ret' = FirstLimit(res, lim)
                     /\ UNCHANGED <<results_to_fetch, offset>>
                ELSE /\ pc' = "loop"
                     /\ results_to_fetch' = ResultsToFetch(lim, total)
                     /\ offset' = FirstOffset(res, page_size)
                     /\ UNCHANGED ret

\* lines 209-218 testing `limit` by truthiness (`if limit and ...`), so that
\* limit == 0 is handled like limit is None
FirstResponseFalsyLimit ==
    /\ op = "search" /\ pc = "first"
    /\ \E resp \in ServerResponses(0) :
         HandleFirst(resp, IF limit = 0 THEN NoLimit ELSE limit)
    /\ UNCHANGED <<op, honest, T, page_size, limit, requests, tasks, status,
                   pages, completion, later_found_more, page_field,
                   paramVars, fetchVars, otherVars>>

\* lines 199-221: the first response arrives and is evaluated
FirstResponse ==
    /\ op = "search" /\ pc = "first"
    /\ \E resp \in ServerResponses(0) : HandleFirst(resp, limit)
    /\ UNCHANGED <<op, honest, T, page_size, limit, requests, tasks, status,
                   pages, completion, later_found_more, page_field,
                   paramVars, fetchVars, otherVars>>

\* line 221 stepping the range by one record instead of one page
NextOffsetByOne(off, ps) == off + 1

\* line 221: the step of range(len(results), results_to_fetch, page_size)
NextOffset(off, ps) == off + ps

\* lines 222-223: page_params = params.copy(); page_params["offset"] = ...
PageParams(p, off) == [p EXCEPT !.offset = off]

\* page_params = params without the copy: the offset lands in `params`
ParamsAfterPageAliased(p, off) == [p EXCEPT !.offset = off]

\* line 222: the copy leaves `params` as it was
ParamsAfterPage(p, off) == p

\* lines 221-230: one iteration of the loop over
\* range(len(results), results_to_fetch, page_size)
CreateTask ==
    /\ op = "search" /\ pc = "loop"
    /\ offset < results_to_fetch
    /\ tasks' = Append(tasks, offset)
    /\ requests' = Append(requests, offset)
    /\ status' = Append(status, "pending")
    /\ pages' = Append(pages, <<>>)
    /\ offset' = NextOffset(offset, page_size)
    /\ sent_params' = Append(sent_params, PageParams(params, offset))
    /\ params' = ParamsAfterPage(params, offset)
    /\ page_field' = Append(page_field, "none")
    /\ UNCHANGED <<op, pc, honest, T, page_size, limit, first_page, results,
                   total_results_found, results_to_fetch, completion, ret,
                   first_response_json, later_found_more, fetchVars,
                   otherVars>>

\* lines 221, 232, 239-242: the range is exhausted
LoopExit ==
    /\ op = "search" /\ pc = "loop"
    /\ offset >= results_to_fetch
    /\ IF tasks = <<>>
       THEN /\ pc' = "done"
            /\ ret' = Truncate(results, limit)
       ELSE /\ pc' = "gather"
            /\ UNCHANGED ret
    /\ UNCHANGED <<op, honest, T, page_size, limit, requests, first_page,
                   results, total_results_found, results_to_fetch, offset,
                   tasks, status, pages, completion, respVars, paramVars,
                   fetchVars, otherVars>>

\* each request awaited inside the loop, as soon as it is created
CanSettleInLoop(p) == p \in {"loop", "gather", "raised"}

\* line 233: the coroutines run only once search awaits gather(); gather()
\* does not cancel the others when one fails, so they keep settling after
\* search has raised
CanSettle(p) == p \in {"gather", "raised"}

\* a fan-out task that sends its request again when the response is a failure
SettleRetrying(i) ==
    /\ op = "search" /\ CanSettle(pc)
    /\ i \in 1..Len(tasks)
    /\ status[i] = "pending"
    /\ \E resp \in ServerResponses(tasks[i]) :
         IF resp.ok
         THEN /\ status' = [status EXCEPT ![i] = "ok"]
              /\ pages' = [pages EXCEPT ![i] = PageResults(resp)]
              /\ page_field' = [page_field EXCEPT ![i] = PageField(resp)]
              /\ completion' = Append(completion, i)
              /\ UNCHANGED <<requests, sent_params>>
         ELSE /\ Len(requests) <= Len(tasks) + 1
              /\ requests' = Append(requests, tasks[i])
              /\ sent_params' = Append(sent_params, PageParams(params, tasks[i]))
              /\ UNCHANGED <<status, pages, page_field, completion>>
    /\ UNCHANGED <<op, pc, honest, T, page_size, limit, first_page,
                   results, total_results_found, results_to_fetch, offset,
                   tasks, ret, first_response_json, later_found_more, params,
                   fetchVars, otherVars>>

\* lines 90-96 inside one fan-out task: its response arrives
Settle(i) ==
    /\ op = "search" /\ CanSettle(pc)
    /\ i \in 1..Len(tasks)
    /\ status[i] = "pending"
    /\ \E resp \in ServerResponses(tasks[i]) :
         /\ status' = [status EXCEPT ![i] = IF resp.ok THEN "ok" ELSE "failed"]
         /\ pages' = [pages EXCEPT ![i] = PageResults(resp)]
         /\ later_found_more' =
              (later_found_more
                 \/ (resp.ok /\ resp.hasNumFound
                       /\ resp.numFound > total_results_found))
         /\ page_field' = [page_field EXCEPT ![i] = PageField(resp)]
    /\ completion' = Append(completion, i)
    /\ UNCHANGED <<op, pc, honest, T, page_size, limit, requests, first_page,
                   results, total_results_found, results_to_fetch, offset,
                   tasks, ret, first_response_json, paramVars, fetchVars,
                   otherVars>>

\* line 233: gather() without return_exceptions propagates the first failure
GatherCanRaise(st) == \E i \in 1..Len(st) : st[i] = "failed"

\* the list handed over as soon as the first awaitable has succeeded
GatherCanReturnFirst(st) == \E i \in 1..Len(st) : st[i] = "ok"

\* gather(return_exceptions=True): the list is there once all have settled
GatherCanReturnSettled(st) == \A i \in 1..Len(st) : st[i] # "pending"

\* line 233: gather() yields its list once every awaitable has succeeded
GatherCanReturn(st) == \A i \in 1..Len(st) : st[i] = "ok"

\* responses listed as they complete (asyncio.as_completed)
GatherOrderAsCompleted(n, compl) == compl

\* line 233: gather() lists the results in the order of the awaitables
\* passed, whatever the order `compl` in which they completed
GatherOrder(n, compl) == [k \in 1..n |-> k]

\* lines 235-237: results.extend(...) for each response of the gathered list
Merge(first, pgs, order) ==
    first \o Concat([k \in 1..Len(order) |-> pgs[order[k]]])

\* line 233: search resumes with the exception of a failed task
GatherRaise ==
    /\ op = "search" /\ pc = "gather"
    /\ GatherCanRaise(status)
    /\ pc' = "raised"
    /\ UNCHANGED <<op, honest, T, page_size, limit, requests, first_page,
                   results, total_results_found, results_to_fetch, offset,
                   tasks, status, pages, completion, ret, respVars, paramVars,
                   fetchVars, otherVars>>

\* lines 233-242: search resumes with all responses, merges and returns;
\* the merge raises TypeError on a page whose "results" is null
GatherReturn ==
    /\ op = "search" /\ pc = "gather"
    /\ GatherCanReturn(status)
    /\ LET merged == Merge(results, pages, GatherOrder(Len(tasks), completion))
       IN  IF ExtendRaises(page_field)
           THEN /\ pc' = "raised"
                /\ UNCHANGED <<results, ret>>
           ELSE /\ results' = merged
                /\ ret' = Truncate(merged, limit)
                /\ pc' = "done"
    /\ UNCHANGED <<op, honest, T, page_size, limit, requests, first_page,
                   total_results_found, results_to_fetch, offset, tasks,
                   status, pages, completion, respVars, paramVars, fetchVars,
                   otherVars>>

\* ------------------------------------------------------------ fetch_pages
\* line 305-306: one coroutine per URL, handed to gather()
FetchStart ==
    /\ op = "fetch_pages" /\ pc = "start"
    /\ fstatus' = [i \in 1..Len(urls) |-> "created"]
    /\ pc' = "fgather"
    /\ UNCHANGED <<op, searchVars, otherVars, urls, frequests, fcompletion, fret>>

\* lines 280-285: task i starts (tasks start in the order they were passed):
\* the URL is validated, then the request is sent
FetchRun(i) ==
    /\ op = "fetch_pages" /\ pc = "fgather"
    /\ i \in 1..Len(urls)
    /\ fstatus[i] = "created"
    /\ \A j \in 1..(i - 1) : fstatus[j] # "created"
    /\ IF UrlIsValid(urls[i])
       THEN /\ fstatus' = [fstatus EXCEPT ![i] = "sent"]
            /\ frequests' = Append(frequests, urls[i])
            /\ UNCHANGED fcompletion
       ELSE /\ fstatus' = [fstatus EXCEPT ![i] = "value_error"]
            /\ fcompletion' = Append(fcompletion, i)
            /\ UNCHANGED frequests
    /\ UNCHANGED <<op, pc, searchVars, otherVars, urls, fret>>

\* lines 281-287: the response of task i arrives: its text, or an HTTP error
FetchRespond(i) ==
    /\ op = "fetch_pages" /\ pc = "fgather"
    /\ i \in 1..Len(urls)
    /\ fstatus[i] = "sent"
    /\ \E k \in {"content", "http_error"} :
         fstatus' = [fstatus EXCEPT ![i] = k]
    /\ fcompletion' = Append(fcompletion, i)
    /\ UNCHANGED <<op, pc, searchVars, otherVars, urls, frequests, fret>>

\* what task i ended with: the text of its URL, or its exception
Outcome(i) == [url |-> urls[i], kind |-> fstatus[i]]

\* line 306: gather(return_exceptions=True) is done when every task settled
FetchSettled(st) ==
    \A i \in 1..Len(st) : st[i] \in {"content", "http_error", "value_error"}

\* outcomes listed as the tasks complete
FetchGatherOrderAsCompleted(n, compl) == compl

\* line 306: gather() lists outcomes in the order of the awaitables passed
FetchGatherOrder(n, compl) == [k \in 1..n |-> k]

\* lines 306-307
FetchReturn ==
    /\ op = "fetch_pages" /\ pc = "fgather"
    /\ FetchSettled(fstatus)
    /\ LET order == FetchGatherOrder(Len(urls), fcompletion)
       IN  fret' = [k \in 1..Len(order) |-> Outcome(order[k])]
    /\ pc' = "done"
    /\ UNCHANGED <<op, searchVars, otherVars, urls, fstatus, frequests, fcompletion>>

\* lines 280-285: a direct call of fetch_page: the URL is validated, then
\* the request is sent
FetchPageCall ==
    /\ op = "fetch_page" /\ pc = "start"
    /\ IF UrlIsValid(urls[1])
       THEN /\ frequests' = Append(frequests, urls[1])
            /\ pc' = "sent"
       ELSE /\ pc' = "raised"
            /\ UNCHANGED frequests
    /\ UNCHANGED <<op, searchVars, otherVars, urls, fstatus, fcompletion, fret>>

\* lines 281-287: the response arrives: the text is returned, or
\* raise_for_status raises
FetchPageResponse ==
    /\ op = "fetch_page" /\ pc = "sent"
    /\ pc' \in {"done", "raised"}
    /\ UNCHANGED <<op, searchVars, fetchVars, otherVars>>

\* --------------------------------------------------------------- _request
\* the variables of search other than `requests`
searchRest == <<honest, T, page_size, limit, first_page, results,
                total_results_found, results_to_fetch, offset, tasks, status,
                pages, completion, ret, respVars, paramVars>>

\* lines 87-94: a direct call of _request: the method is checked, then the
\* request is sent
RequestCall ==
    /\ op = "request" /\ pc = "start"
    /\ IF MethodIsValid(method)
       THEN /\ requests' = Append(requests, NoOffset)
            /\ pc' = "sent"
       ELSE /\ pc' = "raised"
            /\ UNCHANGED requests
    /\ UNCHANGED <<op, searchRest, fetchVars, otherVars>>

\* lines 90-96: the response arrives; raise_for_status raises on non-2xx
RequestResponse ==
    /\ op = "request" /\ pc = "sent"
    /\ pc' \in {"done", "raised"}
    /\ UNCHANGED <<op, searchVars, fetchVars, otherVars>>

\* ----------------------------------------------------------- authenticate
\* line 117: (response_data.get("response") or {}).get("sessionKey"),
\* None being ""
SessionKey(r) == IF r.hasResponse /\ r.hasKey THEN r.key ELSE ""

\* the key tested with `is not None` on the field instead of by truthiness
KeyIsPresent(r) == r.hasResponse /\ r.hasKey

\* line 117: the walrus condition: the key is truthy
KeyIsUsable(r) == SessionKey(r) # ""

\* lines 102-113: the session/create request is sent
AuthSend ==
    /\ op = "authenticate" /\ pc = "start"
    /\ requests' = Append(requests, NoOffset)
    /\ pc' = "sent"
    /\ UNCHANGED <<op, searchRest, fetchVars, otherVars>>

\* lines 96, 115-123: the response arrives
AuthResponseArrives ==
    /\ op = "authenticate" /\ pc = "sent"
    /\ \E r \in AuthResponses :
         /\ auth_resp' = r
         /\ IF ~r.ok
            THEN /\ pc' = "raised"
                 /\ UNCHANGED cookie
            ELSE IF KeyIsUsable(r)
            THEN /\ cookie' = r.key
                 /\ pc' = "done"
            ELSE /\ pc' = "raised"
                 /\ UNCHANGED cookie
    /\ UNCHANGED <<op, searchVars, fetchVars, cfgVars, cookie0, truncVars,
                   fmtVars, laterVars>>

\* ------------------------------------------- truncation/continuation engine
\* most calls of one continuation chain that are followed
MaxCalls == MaxDoc + 2

\* the window clamped into the document: an out-of-range start_index yields
\* the last character
WindowTextClamped(d, start, max) ==
    LET s == IF Len(d) = 0 THEN 0 ELSE Min(start, Len(d) - 1)
    IN  SubSeq(d, s + 1, Min(s + Max(max, 1), Len(d)))

\* the substring of the document starting at start_index and extending up to
\* max_chars characters
WindowText(d, start, max) ==
    IF start >= Len(d) THEN <<>>
    ELSE SubSeq(d, start + 1, Min(start + max, Len(d)))

\* chars_total as the length that remains from start_index on
WindowTotalRemaining(d, start) == Max(0, Len(d) - start)

\* chars_total = document length (not remaining length)
WindowTotal(d, start) == Len(d)

\* status complete only strictly past the end
WindowStatusStrict(start, returned, total) ==
    IF start + returned > total THEN "complete" ELSE "partial"

\* status = "complete" iff start_index + chars_returned >= chars_total
WindowStatus(start, returned, total) ==
    IF start + returned >= total THEN "complete" ELSE "partial"

\* next_start_index counted from the beginning of the window
NextStartIndexRelative(start, returned, st) ==
    IF st = "partial" THEN returned ELSE NoNext

\* next_start_index = start_index + chars_returned, present iff partial
NextStartIndex(start, returned, st) ==
    IF st = "partial" THEN start + returned ELSE NoNext

\* current_path: the label of the last section whose start offset is <=
\* start_index + chars_returned; absent ("") without such a section
CurrentPath(t, end) ==
    LET passed == {k \in 1..Len(t) : t[k].start <= end}
    IN  IF passed = {} THEN ""
        ELSE t[CHOOSE k \in passed : \A j \in passed : j <= k].label

\* the upcoming sections counted from the current one on
RemainingSectionsFromCurrent(t, end) ==
    LET rest == SelectSeq(t, LAMBDA sec : sec.start >= end)
    IN  [k \in 1..Len(rest) |-> rest[k].label]

\* remaining_sections: every section label whose start offset is >
\* start_index + chars_returned, in document order
RemainingSections(t, end) ==
    LET rest == SelectSeq(t, LAMBDA sec : sec.start > end)
    IN  [k \in 1..Len(rest) |-> rest[k].label]

\* one fetch call: the text and its TruncationWindow
TruncateWindow(d, t, start, max) ==
    LET txt      == WindowText(d, start, max)
        returned == Len(txt)
        total    == WindowTotal(d, start)
        st       == WindowStatus(start, returned, total)
    IN  [text |-> txt,
         window |-> Window(st, returned, total,
                           NextStartIndex(start, returned, st),
                           CurrentPath(t, start + returned),
                           RemainingSections(t, start + returned))]

\* the first fetch call of a chain, at first_start
FetchFirst ==
    /\ op = "fetch" /\ pc = "start"
    /\ LET r == TruncateWindow(doc, toc, start_index, max_chars)
       IN  /\ window' = r.window
           /\ text' = r.text
           /\ collected' = r.text
    /\ calls' = 1
    /\ pc' = "fetched"
    /\ UNCHANGED <<op, searchVars, fetchVars, cfgVars, authVars, doc, toc,
                   max_chars, first_start, start_index, fmtVars, laterVars>>

\* the caller feeds next_start_index back as the next start_index
FetchNext ==
    /\ op = "fetch" /\ pc = "fetched"
    /\ window.status = "partial"
    /\ window.next_start_index # NoNext
    /\ calls < MaxCalls
    /\ LET r == TruncateWindow(doc, toc, window.next_start_index, max_chars)
       IN  /\ window' = r.window
           /\ text' = r.text
           /\ collected' = collected \o r.text
    /\ start_index' = window.next_start_index
    /\ calls' = calls + 1
    /\ UNCHANGED <<op, pc, searchVars, fetchVars, cfgVars, authVars, doc, toc,
                   max_chars, first_start, fmtVars, laterVars>>

\* ---------------------------------------------- format_truncation_metadata
\* the URL the metadata is formatted for
FormatUrl == <<"h", "/", "p">>

\* one line of the result: its kind, the numbers and the strings it prints
Line(kind, nums, strs) == [kind |-> kind, nums |-> nums, strs |-> strs]

\* the percentage rounded to the nearest integer
PctRounded(returned, total) ==
    IF total > 0 THEN (200 * returned + total) \div (2 * total) ELSE 0

\* formatter.py line 244: int(100 * chars_returned / chars_total), 0 when
\* chars_total is 0
Pct(returned, total) ==
    IF total > 0 THEN (100 * returned) \div total ELSE 0

\* the continuation instruction tied to the status field
ShowsContinuationByStatus(m) == m.status = "partial"

\* formatter.py line 261: metadata.next_start_index is not None
ShowsContinuation(m) == m.next_start_index # NoNext

\* formatter.py lines 244-268
FormatTruncationMetadata(m, url) ==
    <<Line("blank", <<>>, <<>>),
      Line("rule", <<>>, <<>>),
      Line("blank", <<>>, <<>>),
      Line("truncated", <<>>, <<>>),
      Line("showing",
           <<m.chars_returned, m.chars_total,
             Pct(m.chars_returned, m.chars_total)>>, <<>>)>>
    \o (IF m.current_path # ""
        THEN <<Line("current", <<>>, <<m.current_path>>)>> ELSE <<>>)
    \o (IF m.remaining_sections # <<>>
        THEN <<Line("upcoming", <<>>, m.remaining_sections)>> ELSE <<>>)
    \o (IF ShowsContinuation(m)
        THEN <<Line("blank", <<>>, <<>>),
               Line("continue", <<>>, <<>>),
               Line("fetch", <<m.next_start_index>>, url)>>
        ELSE <<>>)

\* formatter.py lines 234-268: one call of format_truncation_metadata
Format ==
    /\ op = "format" /\ pc = "start"
    /\ lines' = FormatTruncationMetadata(metadata, FormatUrl)
    /\ pc' = "done"
    /\ UNCHANGED <<op, searchVars, fetchVars, cfgVars, authVars, truncVars,
                   metadata, laterVars>>

\* ----------------------------------------------------------- _truncate_text
\* the position of the last space of s, 0 when s has none
LastSpace(s) ==
    IF \E k \in 1..Len(s) : s[k] = " "
    THEN CHOOSE k \in 1..Len(s) :
            s[k] = " " /\ \A j \in (k + 1)..Len(s) : s[j] # " "
    ELSE 0

\* formatter.py line 167: s.rsplit(" ", 1)[0]: what precedes the last space
\* of s, all of s when it has no space
RSplitHead(s) ==
    IF LastSpace(s) = 0 THEN s ELSE SubSeq(s, 1, LastSpace(s) - 1)

Ellipsis == <<".", ".", ".">>

\* formatter.py lines 164-168
TruncateText(txt, max) ==
    IF Len(txt) <= max THEN txt
    ELSE RSplitHead(Take(txt, max)) \o Ellipsis

\* formatter.py lines 153-168: one call of _truncate_text
TruncateTextCall ==
    /\ op = "truncate_text" /\ pc = "start"
    /\ truncated' = TruncateText(long_text, max_length)
    /\ pc' = "done"
    /\ UNCHANGED <<op, searchVars, fetchVars, cfgVars, authVars, truncVars,
                   fmtVars, long_text, max_length, pagesVars, sharedVars>>

\* ----------------------------------------------------- format_fetch_results
\* formatter.py line 220: result.get("error"), None being ""
ErrorOf(r) == IF r.hasError THEN r.error ELSE ""

\* the error branch taken whenever the record has an "error" key
HasErrorKey(r) == r.hasError

\* formatter.py line 224: `if error:`
HasError(r) == ErrorOf(r) # ""

\* formatter.py lines 218-229: the block of the i-th result: its header and
\* the pieces of its content
Block(i, total, r) ==
    [index |-> i, of |-> total, url |-> r.url,
     content |-> IF HasError(r)
                 THEN <<[kind |-> "error", text |-> ErrorOf(r)]>>
                 ELSE <<[kind |-> "markdown", text |-> r.markdown]>>]

\* formatter.py lines 212-231
FormatFetchResults(rs, total) ==
    IF rs = <<>>
    THEN [no_pages |-> TRUE, parts |-> <<>>]
    ELSE [no_pages |-> FALSE,
          parts |-> [i \in 1..Len(rs) |-> Block(i, total, rs[i])]]

\* formatter.py lines 198-231: one call of format_fetch_results
FormatResults ==
    /\ op = "format_results" /\ pc = "start"
    /\ formatted' = FormatFetchResults(fetch_results, total_count)
    /\ pc' = "done"
    /\ UNCHANGED <<op, searchVars, fetchVars, cfgVars, authVars, truncVars,
                   fmtVars, textVars, fetch_results, total_count, sharedVars>>

\* ------------------------------------------ two calls on the same client
\* an element of a returned list: a search record (by position) or the
\* outcome of a URL
Item(kind, id, url) == [kind |-> kind, id |-> id, url |-> url]

\* a coroutine in `tasks`: a search page request or a fetch_page(url)
Task(off, url) == [offset |-> off, url |-> url]

\* the server's page at offset o for the query of call arguments a
SharedPage(a, o) ==
    [k \in 1..Max(0, Min(page_size, a.T - o)) |-> Item("record", o + k - 1, <<>>)]

\* igloo.py lines 280-287: how fetch_page(url) ends
SharedOutcome(url) ==
    Item(IF UrlIsValid(url) THEN "content" ELSE "value_error", 0, url)

\* igloo.py line 221: range(start, stop, page_size) as a sequence
OffsetRange(start, stop) ==
    [k \in 1..CeilDiv(Max(0, stop - start), page_size)
        |-> start + (k - 1) * page_size]

\* the locals kept on the client object, one set for all calls
SlotOnClient(c) == 1

\* igloo.py lines 166-242, 305-307: `results` and `tasks` are locals of the
\* coroutine, so every call has its own frame
Slot(c) == c

\* a step of call c while the other call is between its start and its end
Overlaps(c) == \E d \in Calls \ {c} : cpc[d] \notin {"start", "done"}

\* igloo.py lines 199-203, 305: the call starts: search sends its first
\* request, fetch_pages creates one coroutine per URL
CallStart(c) ==
    /\ op = "concurrent" /\ cpc[c] = "start"
    /\ IF cargs[c].kind = "search"
       THEN /\ cpc' = [cpc EXCEPT ![c] = "first"]
            /\ UNCHANGED clocals
       ELSE /\ cpc' = [cpc EXCEPT ![c] = "gather"]
            /\ clocals' = [clocals EXCEPT ![Slot(c)] =
                 [results |-> <<>>,
                  tasks |-> [i \in 1..Len(cargs[c].urls)
                               |-> Task(0, cargs[c].urls[i])],
                  pages |-> [i \in 1..Len(cargs[c].urls) |-> <<>>],
                  got |-> {}]]
    /\ overlapped' = (overlapped \/ Overlaps(c))
    /\ UNCHANGED <<op, pc, searchVars, fetchVars, cfgVars, authVars, truncVars,
                   fmtVars, textVars, pagesVars, cargs, cret>>

\* igloo.py lines 205-230 of a search: its first response arrives
CallFirst(c) ==
    /\ op = "concurrent" /\ cpc[c] = "first"
    /\ LET a     == cargs[c]
           first == SharedPage(a, 0)
           total == a.T
           offs  == OffsetRange(FirstOffset(first, page_size),
                                ResultsToFetch(a.limit, total))
           early == LimitIsZero(a.limit) \/ FirstPageSatisfies(a.limit, first)
       IN  /\ clocals' = [clocals EXCEPT ![Slot(c)] =
                [results |-> first,
                 tasks |-> IF early THEN <<>>
                           ELSE [i \in 1..Len(offs) |-> Task(offs[i], <<>>)],
                 pages |-> IF early THEN <<>>
                           ELSE [i \in 1..Len(offs) |-> <<>>],
                 got |-> {}]]
           /\ IF LimitIsZero(a.limit)
              THEN /\ cpc' = [cpc EXCEPT ![c] = "done"]
                   /\ cret' = [cret EXCEPT ![c] = <<>>]
              ELSE IF FirstPageSatisfies(a.limit, first)
              THEN /\ cpc' = [cpc EXCEPT ![c] = "done"]
                   /\ cret' = [cret EXCEPT ![c] = FirstLimit(first, a.limit)]
              ELSE IF offs = <<>>
              THEN /\ cpc' = [cpc EXCEPT ![c] = "done"]
                   /\ cret' = [cret EXCEPT ![c] = Truncate(first, a.limit)]
              ELSE /\ cpc' = [cpc EXCEPT ![c] = "gather"]
                   /\ UNCHANGED cret
    /\ overlapped' = (overlapped \/ Overlaps(c))
    /\ UNCHANGED <<op, pc, searchVars, fetchVars, cfgVars, authVars, truncVars,
                   fmtVars, textVars, pagesVars, cargs>>

\* igloo.py lines 233, 306: the response of task i of the frame of call c
\* arrives
CallSettle(c, i) ==
    /\ op = "concurrent" /\ cpc[c] = "gather"
    /\ LET L == clocals[Slot(c)]
       IN  /\ i \in 1..Len(L.tasks)
           /\ i \notin L.got
           /\ clocals' = [clocals EXCEPT ![Slot(c)] =
                [L EXCEPT !.got = L.got \cup {i},
                          !.pages[i] =
                             IF cargs[c].kind = "search"
                             THEN SharedPage(cargs[c], L.tasks[i].offset)
                             ELSE <<SharedOutcome(L.tasks[i].url)>>]]
    /\ overlapped' = (overlapped \/ Overlaps(c))
    /\ UNCHANGED <<op, pc, searchVars, fetchVars, cfgVars, authVars, truncVars,
                   fmtVars, textVars, pagesVars, cargs, cpc, cret>>

\* igloo.py lines 233-242, 306-307: every task of the frame has settled; the
\* call merges and returns
CallReturn(c) ==
    /\ op = "concurrent" /\ cpc[c] = "gather"
    /\ LET L      == clocals[Slot(c)]
           merged == L.results \o Concat(L.pages)
       IN  /\ L.got = 1..Len(L.tasks)
           /\ clocals' = [clocals EXCEPT ![Slot(c)] =
                           [L EXCEPT !.results = merged]]
           /\ cret' = [cret EXCEPT ![c] =
                         IF cargs[c].kind = "search"
                         THEN Truncate(merged, cargs[c].limit)
                         ELSE merged]
    /\ cpc' = [cpc EXCEPT ![c] = "done"]
    /\ overlapped' = (overlapped \/ Overlaps(c))
    /\ UNCHANGED <<op, pc, searchVars, fetchVars, cfgVars, authVars, truncVars,
                   fmtVars, textVars, pagesVars, cargs>>

\* -------------------------------------------------------------------- Next
Next ==
    \/ ConfigError
    \/ SendFirst
    \/ FirstResponse
    \/ CreateTask
    \/ LoopExit
    \/ \E i \in 1..Len(tasks) : Settle(i)
    \/ GatherRaise
    \/ GatherReturn
    \/ FetchStart
    \/ \E i \in 1..Len(urls) : FetchRun(i)
    \/ \E i \in 1..Len(urls) : FetchRespond(i)
    \/ FetchReturn
    \/ FetchPageCall
    \/ FetchPageResponse
    \/ RequestCall
    \/ RequestResponse
    \/ AuthSend
    \/ AuthResponseArrives
    \/ FetchFirst
    \/ FetchNext
    \/ Format
    \/ TruncateTextCall
    \/ FormatResults
    \/ \E c \in Calls : CallStart(c)
    \/ \E c \in Calls : CallFirst(c)
    \/ \E c \in Calls : \E i \in 1..(MaxShared + 2) : CallSettle(c, i)
    \/ \E c \in Calls : CallReturn(c)

Spec == Init /\ [][Next]_vars

\* the event loop resumes search once gather() holds an exception
FairSpec == Spec /\ WF_vars(GatherRaise)

\* ------------------------------------------------------------- properties
\* R of claims C1 and C2: min(L, T) if a limit is given, T otherwise
Wanted == IF limit # NoLimit THEN Min(limit, T) ELSE T

\* C1: against a server that answers each request at offset o with exactly
\* the records o .. min(o+P, T)-1, search returns the first min(L, T) records
\* (the first T without a limit) of the server's sequence, each once, in order.
C1_ResultIsPrefix ==
    (op = "search" /\ honest /\ pc = "done")
        => ret = [k \in 1..Wanted |-> k - 1]

\* a search over three pages that the limit cuts inside the last page
C1_Witness ==
    /\ op = "search" /\ honest /\ pc = "done"
    /\ Len(tasks) >= 1 /\ limit # NoLimit /\ limit < T
    /\ Len(results) > limit /\ Len(ret) = limit

\* C2 as stated: one search issues exactly ceil(R / P) requests.
C2_Original ==
    (op = "search" /\ honest /\ pc = "done")
        => Len(requests) = CeilDiv(Wanted, page_size)

\* C2 amended: one search issues exactly max(1, ceil(R / P)) requests: the
\* first page is always requested, also when R = 0.
C2_RequestCount ==
    (op = "search" /\ honest /\ pc = "done")
        => Len(requests) = Max(1, CeilDiv(Wanted, page_size))

\* a limited search that needed the first page and a fan-out of two
C2_Witness ==
    /\ op = "search" /\ honest /\ pc = "done"
    /\ limit # NoLimit /\ limit < T
    /\ Len(requests) = 3

\* C3: search with limit == 0 returns an empty list having issued no HTTP
\* request at all.
C3_LimitZeroNoRequest ==
    (op = "search" /\ limit = 0)
        => /\ requests = <<>>
           /\ pc = "done" => ret = <<>>

\* C4: search with limit == 0 never issues a request carrying an offset and,
\* when it returns, returns the empty list, whatever the first response says.
C4_LimitZeroNoFanOut ==
    (op = "search" /\ limit = 0)
        => /\ \A k \in 1..Len(requests) : requests[k] = NoOffset
           /\ tasks = <<>>
           /\ pc = "done" => ret = <<>>

\* limit == 0 returned although the first response announced more records
\* than the first page held
C4_Witness ==
    /\ op = "search" /\ limit = 0 /\ pc = "done"
    /\ first_page # <<>>
    /\ total_results_found > Len(first_page)

\* the first response has arrived and was a success
FirstPageReceived == pc \in {"loop", "gather", "done"} \/ tasks # <<>>

\* C5: when a limit is given and the first page holds at least limit
\* records, search has returned exactly the first limit records of that page
\* and the first request is the only one issued.
C5_FirstPageSuffices ==
    (op = "search" /\ limit # NoLimit /\ FirstPageReceived
        /\ Len(first_page) >= limit)
        => /\ pc = "done"
           /\ ret = SubSeq(first_page, 1, limit)
           /\ requests = <<NoOffset>>

\* a first page longer than a positive limit, with more records announced
C5_Witness ==
    /\ op = "search" /\ pc = "done"
    /\ limit # NoLimit /\ limit > 0
    /\ Len(first_page) > limit
    /\ total_results_found > Len(first_page)

\* C6: no request is issued once any fan-out response has been received:
\* all fan-out requests exist before the first of them settles, so a search
\* is the first round trip followed by one concurrent fan-out.
C6_RequestsBeforeResponses ==
    [][(requests' # requests) => (completion = <<>> /\ completion' = <<>>)]_vars

\* a fan-out of at least two requests of which one has settled
C6_Witness ==
    /\ op = "search" /\ Len(tasks) >= 2
    /\ Len(completion) = 1

\* the page of the fan-out request with offset o (empty when none has it)
PageAtOffset(o) ==
    IF \E i \in 1..Len(tasks) : tasks[i] = o
    THEN pages[CHOOSE i \in 1..Len(tasks) : tasks[i] = o]
    ELSE <<>>

\* first page, then the fan-out pages by increasing request offset
InOffsetOrder ==
    first_page
        \o Concat([k \in 1..(results_to_fetch + 1) |-> PageAtOffset(k - 1)])

\* C7: whatever the order in which the fan-out requests complete, the
\* returned list is the first page followed by the fan-out pages in
\* increasing request-offset order (cut to the limit when one is given).
C7_MergedInOffsetOrder ==
    (op = "search" /\ pc = "done" /\ tasks # <<>>)
        => /\ \A i, j \in 1..Len(tasks) : i < j => tasks[i] < tasks[j]
           /\ ret = IF limit = NoLimit THEN InOffsetOrder
                    ELSE SubSeq(InOffsetOrder, 1,
                                Min(limit, Len(InOffsetOrder)))

\* the later request completed first, both with records, and search returned
C7_Witness ==
    /\ op = "search" /\ pc = "done" /\ limit = NoLimit
    /\ Len(completion) >= 2
    /\ completion[1] > completion[2]
    /\ pages[completion[1]] # <<>> /\ pages[completion[2]] # <<>>

\* some fan-out request has failed
SomeFanOutFailed == \E i \in 1..Len(status) : status[i] = "failed"

\* C8: once one fan-out request has failed, search never returns a list (not
\* the first page, not the pages that succeeded): it ends by raising.
C8_FailureIsFatal ==
    /\ [](SomeFanOutFailed => pc \in {"gather", "raised"})
    /\ (SomeFanOutFailed ~> pc = "raised")

\* search raised although the first page and another fan-out page succeeded
C8_Witness ==
    /\ op = "search" /\ pc = "raised"
    /\ first_page # <<>>
    /\ \E i, j \in 1..Len(status) :
         status[i] = "failed" /\ status[j] = "ok" /\ pages[j] # <<>>

\* C9: fetch_pages never raises, and when it returns, the list has one slot
\* per input URL, slot i holding the outcome of URL i (its content, or the
\* error it ended with, a rejection by the community check included), for
\* every completion order.
C9_PositionalOutcomes ==
    (op = "fetch_pages")
        => /\ pc # "raised"
           /\ pc = "done" =>
                /\ Len(fret) = Len(urls)
                /\ \A i \in 1..Len(urls) :
                     /\ fret[i].url = urls[i]
                     /\ fret[i].kind = fstatus[i]
                     /\ fret[i].kind = "value_error" <=> ~UrlIsValid(urls[i])

\* three URLs: the first failed last, the second was rejected by the
\* community check, the third was fetched
C9_Witness ==
    /\ op = "fetch_pages" /\ pc = "done"
    /\ Len(urls) = 3 /\ urls[1] # urls[3]
    /\ fret[1].kind = "http_error"
    /\ fret[2].kind = "value_error"
    /\ fret[3].kind = "content"
    /\ fcompletion = <<2, 3, 1>>

\* C10 as stated: search neither returns nor raises before every fan-out
\* request of the batch has settled.
C10_Original ==
    (op = "search" /\ pc \in {"done", "raised"})
        => \A i \in 1..Len(status) : status[i] # "pending"

\* C10 amended: search returns a list only after every fan-out request of
\* the batch has settled successfully; it raises only after a request has
\* failed, and may then leave other requests of the batch pending, or after
\* all of them have settled successfully and the merge has raised.
C10_ReturnsAfterAllSettle ==
    (op = "search")
        => /\ pc = "done" => \A i \in 1..Len(status) : status[i] = "ok"
           /\ (pc = "raised" /\ tasks # <<>>)
                => \/ SomeFanOutFailed
                   \/ /\ \A i \in 1..Len(status) : status[i] = "ok"
                      /\ ExtendRaises(page_field)

\* search has raised while a request of the batch is still pending
C10_Witness ==
    /\ op = "search" /\ pc = "raised"
    /\ \E i, j \in 1..Len(status) :
         status[i] = "failed" /\ status[j] = "pending"

\* C11: a configuration error is raised before any network call: a search
\* with CUSTOM_RANGE and a missing bound, and a _request with a method
\* outside GET/POST/PUT/DELETE, never send a request and can only raise.
C11_ConfigErrorBeforeNetwork ==
    /\ (op = "search" /\ date_type = "dateRange" /\ ~(has_from /\ has_to))
         => requests = <<>> /\ pc \in {"start", "raised"}
    /\ (op = "request" /\ method \notin {"GET", "POST", "PUT", "DELETE"})
         => requests = <<>> /\ pc \in {"start", "raised"}

\* a search with a CUSTOM_RANGE lacking its upper bound has raised
C11_Witness ==
    /\ op = "search" /\ pc = "raised"
    /\ date_type = "dateRange" /\ has_from /\ ~has_to
    /\ requests = <<>>

\* C12: whenever search returns a list while a limit L >= 0 is given, the
\* list has at most L elements, also when the server puts more records in a
\* page than the page size or more records overall than total_found.
C12_AtMostLimit ==
    (op = "search" /\ pc = "done" /\ limit # NoLimit) => Len(ret) <= limit

\* a page longer than the page size made the merged list exceed both the
\* limit and total_found, and search returned
C12_Witness ==
    /\ op = "search" /\ pc = "done" /\ limit # NoLimit
    /\ \E i \in 1..Len(pages) : Len(pages[i]) > page_size
    /\ Len(results) > limit
    /\ Len(results) > total_results_found

\* a continuation chain that began at start_index = 0 and has made a call
ChainFromZero == op = "fetch" /\ first_start = 0 /\ calls >= 1

\* where the latest window ends in the document
WindowEnd == start_index + window.chars_returned

\* C13: in a chain started at 0 and continued with each next_start_index,
\* the windows returned so far concatenate to exactly the document's prefix
\* up to the end of the latest window (no overlap, no gap), and to the whole
\* document once status is complete.
C13_WindowsReconstructDocument ==
    ChainFromZero
        => /\ collected = [k \in 1..WindowEnd |-> doc[k]]
           /\ window.status = "complete" => collected = doc

\* a chain of several calls that ended with a window shorter than the budget
C13_Witness ==
    /\ ChainFromZero /\ calls >= 2
    /\ window.status = "complete"
    /\ Len(text) > 0 /\ Len(text) < max_chars
    /\ collected = doc

\* C14: every TruncationWindow has status complete iff start_index +
\* chars_returned >= chars_total and partial otherwise; next_start_index is
\* present iff the status is partial and then is start_index + chars_returned.
C14_WindowInvariant ==
    (op = "fetch" /\ calls >= 1)
        => /\ window.status \in {"complete", "partial"}
           /\ window.status = "complete"
                <=> WindowEnd >= window.chars_total
           /\ window.next_start_index # NoNext
                <=> window.status = "partial"
           /\ window.status = "partial"
                => window.next_start_index = WindowEnd

\* a partial window that does not begin at the start of the document
C14_Witness ==
    /\ op = "fetch" /\ calls >= 1
    /\ start_index > 0
    /\ window.status = "partial"
    /\ window.chars_returned > 0

C16_StartPastEnd ==
    (op = "fetch" /\ calls >= 1 /\ start_index >= Len(doc))
        => /\ pc # "raised"
           /\ window.status = "complete"
           /\ window.chars_returned = 0
           /\ text = <<>>
           /\ window.next_start_index = NoNext

\* a first call that starts beyond the end of a non-empty document
C16_Witness ==
    /\ op = "fetch" /\ calls = 1 /\ pc = "fetched"
    /\ Len(doc) > 0 /\ start_index > Len(doc)
    /\ max_chars > 0

\* C17: the text of a fetch is the document's characters from start_index
\* on, at most max_chars of them; chars_returned is the length of that text
\* and never exceeds max_chars; chars_total is the document length whatever
\* start_index is.
C17_WindowIsSubstring ==
    (op = "fetch" /\ calls >= 1)
        => /\ text = [k \in 1..Max(0, Min(max_chars, Len(doc) - start_index))
                        |-> doc[start_index + k]]
           /\ window.chars_returned = Len(text)
           /\ window.chars_returned <= max_chars
           /\ window.chars_total = Len(doc)

\* a full window taken from the middle of the document
C17_Witness ==
    /\ op = "fetch" /\ calls >= 1
    /\ start_index > 0 /\ max_chars > 0
    /\ Len(text) = max_chars
    /\ start_index + max_chars < Len(doc)

\* the percentage printed in the "Showing ..." line
ShownPct == lines[5].nums[3]

\* C18: format_truncation_metadata displays floor(100 * chars_returned /
\* chars_total); the value is in [0, 100] whenever 0 <= chars_returned <=
\* chars_total, and it is 0, without an error, when chars_total is 0.
C18_PercentageIsFloor ==
    (op = "format" /\ pc = "done")
        => /\ lines[5].kind = "showing"
           /\ metadata.chars_total > 0
                => /\ ShownPct * metadata.chars_total
                        <= 100 * metadata.chars_returned
                   /\ 100 * metadata.chars_returned
                        < (ShownPct + 1) * metadata.chars_total
           /\ metadata.chars_total = 0 => ShownPct = 0
           /\ metadata.chars_returned <= metadata.chars_total
                => ShownPct \in 0..100

\* two of three characters returned are shown as 66 percent
C18_Witness ==
    /\ op = "format" /\ pc = "done"
    /\ metadata.chars_returned = 2 /\ metadata.chars_total = 3
    /\ ShownPct = 66

\* the authentication response carries a non-empty sessionKey
CarriesSessionKey ==
    /\ auth_resp.ok /\ auth_resp.hasResponse /\ auth_resp.hasKey
    /\ auth_resp.key # ""

\* C19: an authentication response without a (non-empty) sessionKey makes
\* authenticate raise and leaves the iglooAuth cookie as it was; the cookie
\* is set, to that key, only when the response carries a non-empty
\* sessionKey.
C19_NoSessionKeyIsFatal ==
    (op = "authenticate")
        => /\ ~auth_resp.received => cookie = cookie0
           /\ (auth_resp.received /\ ~CarriesSessionKey)
                => pc = "raised" /\ cookie = cookie0
           /\ (auth_resp.received /\ CarriesSessionKey)
                => pc = "done" /\ cookie = auth_resp.key

\* a 2xx response whose "response" object has no sessionKey: authenticate
\* raised and the old cookie is still there
C19_Witness ==
    /\ op = "authenticate" /\ pc = "raised"
    /\ auth_resp.received /\ auth_resp.ok
    /\ auth_resp.hasResponse /\ ~auth_resp.hasKey
    /\ cookie0 = "old" /\ cookie = "old"

\* the positions of the fetch(url=..., start_index=N) line in the result
FetchLines == {k \in 1..Len(lines) : lines[k].kind = "fetch"}

\* C20: format_truncation_metadata emits the continuation instruction iff
\* metadata.next_start_index is not None, whatever the status field is, and
\* the N it prints is exactly metadata.next_start_index.
C20_ContinuationIffNextIndex ==
    (op = "format" /\ pc = "done")
        => /\ FetchLines # {} <=> metadata.next_start_index # NoNext
           /\ Cardinality(FetchLines) <= 1
           /\ \A k \in FetchLines :
                /\ lines[k].nums = <<metadata.next_start_index>>
                /\ lines[k].strs = FormatUrl
                /\ k = Len(lines)

\* status partial without a next_start_index: no continuation instruction
C20_Witness ==
    /\ op = "format" /\ pc = "done"
    /\ metadata.status = "partial"
    /\ metadata.next_start_index = NoNext
    /\ FetchLines = {}

\* the part of the result that precedes the ellipsis
BeforeEllipsis == SubSeq(truncated, 1, Len(truncated) - 3)

\* C21: _truncate_text returns a text of length <= max_length unchanged; a
\* longer text yields a result that ends with "...", is at most
\* max_length + 3 long, is cut at the last whole word within the first
\* max_length characters (what is dropped is the spaces after that word and
\* the begun word after them; nothing is dropped when they hold no space),
\* and whose part before the ellipsis does not end with a space.
C21_TruncatedAtWord ==
    (op = "truncate_text" /\ pc = "done")
        => /\ Len(long_text) <= max_length => truncated = long_text
           /\ Len(long_text) > max_length =>
                LET head == Take(long_text, max_length)
                    cut  == Len(BeforeEllipsis)
                IN  /\ Len(truncated) >= 3
                    /\ SubSeq(truncated, Len(truncated) - 2, Len(truncated))
                         = Ellipsis
                    /\ Len(truncated) <= max_length + 3
                    /\ BeforeEllipsis = Take(head, cut)
                    /\ cut = Len(head) => \A k \in 1..Len(head) : head[k] # " "
                    /\ cut < Len(head) =>
                         /\ head[cut + 1] = " "
                         /\ \A j, k \in (cut + 1)..Len(head) :
                              (j < k /\ head[k] = " ") => head[j] = " "
                    /\ cut > 0 => BeforeEllipsis[cut] # " "

\* C22: format_fetch_results on a non-empty list of N results emits exactly
\* N page blocks in input order, the i-th headed "PAGE i of total_count" with
\* the i-th URL; a block shows the error text when the result has a non-empty
\* error and the markdown otherwise, never both; on an empty list the result
\* is "No pages to display.".
C22_OneBlockPerResult ==
    (op = "format_results" /\ pc = "done")
        => /\ formatted.no_pages <=> fetch_results = <<>>
           /\ Len(formatted.parts) = Len(fetch_results)
           /\ \A i \in 1..Len(fetch_results) :
                LET b == formatted.parts[i]
                    r == fetch_results[i]
                    e == r.hasError /\ r.error # ""
                IN  /\ b.index = i /\ b.of = total_count /\ b.url = r.url
                    /\ Len(b.content) = 1
                    /\ e => b.content[1] = [kind |-> "error", text |-> r.error]
                    /\ ~e => b.content[1]
                               = [kind |-> "markdown", text |-> r.markdown]

\* a page with an empty error string followed by a failure that also has
\* markdown, under a total_count that is not the number of results
C22_Witness ==
    /\ op = "format_results" /\ pc = "done"
    /\ Len(fetch_results) = 2 /\ total_count # 2
    /\ fetch_results[1].hasError /\ fetch_results[1].error = ""
    /\ fetch_results[2].error = "e" /\ fetch_results[2].markdown = "m"
    /\ fetch_results[1].url # fetch_results[2].url
    /\ formatted.parts[1].content[1].kind = "markdown"
    /\ formatted.parts[2].content[1].kind = "error"

\* results_to_fetch as the first response fixes it
PlannedToFetch ==
    IF limit # NoLimit THEN Min(limit, total_results_found)
    ELSE total_results_found

\* len(first_page), len(first_page) + page_size, ... below PlannedToFetch
PlannedOffsets ==
    [k \in 1..CeilDiv(Max(0, PlannedToFetch - Len(first_page)), page_size)
        |-> Len(first_page) + (k - 1) * page_size]

\* the fan-out loop of the search is over
FanOutPlanned ==
    op = "search" /\ (pc \in {"gather", "done"}
                        \/ (pc = "raised" /\ tasks # <<>>))

C24_NothingFoundNoFanOut ==
    (op = "search" /\ FirstPageReceived /\ total_results_found = 0)
        => /\ requests = <<NoOffset>>
           /\ tasks = <<>>
           /\ pc \in {"loop", "done"}
           /\ pc = "done" =>
                /\ ret = IF limit = NoLimit THEN first_page
                         ELSE SubSeq(first_page, 1,
                                     Min(limit, Len(first_page)))
                /\ first_page = <<>> => ret = <<>>

\* a search with a positive limit returned the empty first page of a
\* response that said numFound = 0
C24_Witness ==
    /\ op = "search" /\ pc = "done"
    /\ limit # NoLimit /\ limit > 0
    /\ first_response_json.ok /\ first_response_json.hasNumFound
    /\ first_response_json.numFound = 0
    /\ first_page = <<>> /\ ret = <<>>

\* search raised although no request of it failed
FailedWithoutHttpError ==
    /\ op = "search" /\ pc = "raised"
    /\ ~DateRangeError(date_type, has_from, has_to)
    /\ tasks # <<>> /\ ~SomeFanOutFailed

\* a fan-out response without a "results" field, or with an empty one, adds
\* nothing
AbsentPageIsEmpty ==
    \A i \in 1..Len(tasks) :
        (status[i] = "ok" /\ page_field[i] \in {"absent", "null"})
            => pages[i] = <<>>

\* C25: a response without a results field is an empty list, in the first
\* page and in every fan-out page; a first response without a numFound field
\* is handled as total_found = 0 is: no fan-out request, and the first page is
\* returned (cut to the limit); an absent or empty field never makes search
\* fail.
C25_AbsentFieldsDefault ==
    (op = "search")
        => /\ ~FailedWithoutHttpError
           /\ AbsentPageIsEmpty
           /\ (FirstPageReceived /\ ~first_response_json.hasResults)
                => first_page = <<>>
           /\ (FirstPageReceived /\ ~first_response_json.hasNumFound)
                => /\ requests = <<NoOffset>> /\ tasks = <<>>
                   /\ pc \in {"loop", "done"}
                   /\ pc = "done" =>
                        ret = IF limit = NoLimit THEN first_page
                              ELSE SubSeq(first_page, 1,
                                          Min(limit, Len(first_page)))

\* the offset a request asks for: a request without the parameter starts at 0
EffectiveOffset(r) == IF r = NoOffset THEN 0 ELSE r

\* how often x occurs in the sequence q
Count(q, x) == Cardinality({k \in 1..Len(q) : q[k] = x})

\* some request of the search has failed
SomeRequestFailed ==
    op = "search" /\ (SomeFanOutFailed \/ (pc = "raised" /\ requests # <<>>))

\* fetch_pages sends at most one request per slot of `urls`: only a slot
\* that has not started sends one
C26_FetchPagesPart ==
    /\ [](op = "fetch_pages" =>
             \A u \in UrlPool : Count(frequests, u) <= Count(urls, u))
    /\ [][(op = "fetch_pages" /\ frequests' # frequests) =>
             \E i \in 1..Len(urls) :
                 /\ fstatus[i] = "created" /\ fstatus'[i] = "sent"
                 /\ frequests' = Append(frequests, urls[i])]_vars

\* C26 as stated: within one search each offset (0 and every fan-out offset)
\* is requested at most once, and once a request has failed no request is
\* issued; the same per URL in fetch_pages.
C26_Original ==
    /\ [](op = "search" =>
             \A j, k \in 1..Len(requests) :
                 j < k => EffectiveOffset(requests[j])
                            # EffectiveOffset(requests[k]))
    /\ [][SomeRequestFailed => requests' = requests]_vars
    /\ C26_FetchPagesPart

\* C26 amended: no request is issued again: the first request is issued once,
\* the fan-out offsets are strictly increasing, and once a request has failed
\* no request is issued; offset 0 is requested a second time, as a fan-out
\* request, exactly when the first page was empty while records remained to
\* be fetched; the same per URL slot in fetch_pages.
C26_NoRetry ==
    /\ [](op = "search" =>
             /\ \A k \in 1..Len(requests) : requests[k] = NoOffset <=> k = 1
             /\ \A j, k \in 2..Len(requests) :
                    j < k => requests[j] < requests[k]
             /\ FanOutPlanned =>
                    ((\E k \in 2..Len(requests) : requests[k] = 0)
                        <=> (first_page = <<>> /\ PlannedToFetch > 0)))
    /\ [][SomeRequestFailed => requests' = requests]_vars
    /\ C26_FetchPagesPart

\* a fan-out of two requests of which the first has failed, the other still
\* pending, and search has raised
C26_Witness ==
    /\ op = "search" /\ pc = "raised"
    /\ Len(tasks) = 2 /\ Len(requests) = 3
    /\ status[1] = "failed" /\ status[2] = "pending"

\* what search returns for arguments a when it runs alone: lines 205-242
\* evaluated in sequence against the same server answers
SearchAlone(a) ==
    LET first == SharedPage(a, 0)
        offs  == OffsetRange(Len(first),
                             IF a.limit # NoLimit THEN Min(a.limit, a.T)
                             ELSE a.T)
        all   == first \o Concat([i \in 1..Len(offs)
                                    |-> SharedPage(a, offs[i])])
    IN  IF a.limit # NoLimit /\ a.limit = 0 THEN <<>>
        ELSE IF a.limit # NoLimit /\ Len(first) >= a.limit
        THEN SubSeq(first, 1, a.limit)
        ELSE IF a.limit # NoLimit
        THEN SubSeq(all, 1, Min(a.limit, Len(all)))
        ELSE all

\* what fetch_pages returns for arguments a when it runs alone
FetchPagesAlone(a) ==
    [i \in 1..Len(a.urls) |-> SharedOutcome(a.urls[i])]

Alone(a) == IF a.kind = "search" THEN SearchAlone(a) ELSE FetchPagesAlone(a)

\* C27: two calls interleaved on the same client (two searches, or a search
\* and a fetch_pages) share no mutable state: in every interleaving of their
\* requests and responses each call returns what it returns when run alone
\* against the same server answers, and while a call has not returned the
\* other call's steps leave its results and tasks alone.
C27_InterleavingKeepsResults ==
    (op = "concurrent")
        => \A c \in Calls :
             /\ cpc[c] = "done" => cret[c] = Alone(cargs[c])
             /\ cpc[c] = "gather" =>
                  /\ Len(clocals[c].tasks) = Len(clocals[c].pages)
                  /\ cargs[c].kind = "search" =>
                       clocals[c].results = SharedPage(cargs[c], 0)

\* two searches with different answers that both fanned out, ran
\* interleaved and returned
C27_Witness ==
    /\ op = "concurrent" /\ overlapped
    /\ \A c \in Calls :
         /\ cargs[c].kind = "search" /\ cpc[c] = "done"
         /\ Len(clocals[c].tasks) >= 1
    /\ cret[1] # cret[2]

\* a search and a fetch_pages ran interleaved and returned
C27_WitnessFetchPages ==
    /\ op = "concurrent" /\ overlapped
    /\ cargs[2].kind = "fetch_pages" /\ Len(cargs[2].urls) = 2
    /\ cpc[1] = "done" /\ cpc[2] = "done"
    /\ Len(clocals[1].tasks) >= 1

\* the positions of the sections that start at or before the window's end
PassedSections == {k \in 1..Len(toc) : toc[k].start <= WindowEnd}

\* the lines of the formatted metadata of the given kind
LinesOf(kind) == {k \in 1..Len(lines) : lines[k].kind = kind}

\* C28: for a document with a table of contents, current_path is the label of
\* the last section whose start offset is <= start_index + chars_returned
\* (absent when there is none, as for a document without a table of
\* contents), remaining_sections lists in document order exactly the
\* sections that start after it, and no section is both passed and
\* remaining; format_truncation_metadata prints the current section iff
\* current_path is set and the upcoming sections iff some remain.
C28_SectionsSplitAtWindowEnd ==
    /\ (op = "fetch" /\ calls >= 1) =>
         LET n == Cardinality(PassedSections)
         IN  /\ PassedSections = 1..n
             /\ window.current_path = IF n = 0 THEN "" ELSE toc[n].label
             /\ toc = <<>> => window.current_path = ""
             /\ window.remaining_sections
                  = [k \in 1..(Len(toc) - n) |-> toc[n + k].label]
             /\ \A k \in 1..Len(window.remaining_sections) :
                  /\ window.remaining_sections[k] # window.current_path
                  /\ \A j \in PassedSections :
                       window.remaining_sections[k] # toc[j].label
    /\ (op = "format" /\ pc = "done") =>
         /\ LinesOf("current") # {} <=> metadata.current_path # ""
         /\ \A k \in LinesOf("current") :
              lines[k].strs = <<metadata.current_path>>
         /\ LinesOf("upcoming") # {} <=> metadata.remaining_sections # <<>>
         /\ \A k \in LinesOf("upcoming") :
              lines[k].strs = metadata.remaining_sections

\* a window that ends exactly where section B starts: B is current, C is
\* the one remaining section
C28_Witness ==
    /\ op = "fetch" /\ calls >= 1 /\ Len(toc) = 3
    /\ WindowEnd = toc[2].start
    /\ window.status = "partial"
    /\ window.current_path = "B"
    /\ window.remaining_sections = <<"C">>

\* the URL is the community base URL, or that base URL followed by "/" or "?"
BelongsToCommunity(url) ==
    \/ url = <<"h">>
    \/ Len(url) >= 2 /\ url[1] = "h" /\ url[2] \in {"/", "?"}

\* C29: fetch_page sends a request only for a URL that equals the community
\* base URL or starts with it followed by "/" or "?"; for any other URL it
\* raises having sent nothing, and inside fetch_pages such a URL yields an
\* error slot while no request for it is ever issued.
C29_OnlyCommunityUrlsRequested ==
    /\ (op \in {"fetch_page", "fetch_pages"}) =>
         \A k \in 1..Len(frequests) : BelongsToCommunity(frequests[k])
    /\ (op = "fetch_page" /\ ~BelongsToCommunity(urls[1])) =>
         frequests = <<>> /\ pc \in {"start", "raised"}
    /\ (op = "fetch_page" /\ BelongsToCommunity(urls[1]) /\ pc # "start") =>
         frequests = <<urls[1]>>
    /\ (op = "fetch_pages" /\ pc = "done") =>
         \A i \in 1..Len(urls) :
            IF BelongsToCommunity(urls[i])
            THEN fret[i].kind \in {"content", "http_error"}
                   /\ Count(frequests, urls[i]) >= 1
            ELSE fret[i].kind = "value_error"
                   /\ Count(frequests, urls[i]) = 0

\* fetch_pages returned an error slot for a URL that only begins like the
\* community URL, next to a page it fetched
C29_Witness ==
    /\ op = "fetch_pages" /\ pc = "done"
    /\ \E i, j \in 1..Len(urls) :
         /\ urls[i] = <<"h", "x">> /\ fret[i].kind = "value_error"
         /\ fret[j].kind = "content"
    /\ Count(frequests, <<"h", "x">>) = 0

\* C30: every fan-out request of a search carries the query parameters of
\* the first request (query, filters, flags, date range, page-size limit)
\* and differs from it only by its offset parameter; building the per-page
\* parameters leaves the base parameter set unchanged, and the first request
\* carries no offset.
C30_FanOutKeepsParams ==
    (op = "search" /\ requests # <<>>)
        => /\ Len(sent_params) = Len(requests)
           /\ sent_params[1].offset = NoOffset
           /\ sent_params[1].limit = page_size
           /\ sent_params[1].updatedDateType = date_type
           /\ sent_params[1].updatedRange = (date_type = "dateRange")
           /\ params = sent_params[1]
           /\ \A k \in 2..Len(sent_params) :
                /\ sent_params[k].offset = requests[k]
                /\ sent_params[k].offset # NoOffset
                /\ [sent_params[k] EXCEPT !.offset = NoOffset] = sent_params[1]

\* a search with a custom date range that fanned out twice and returned
C30_Witness ==
    /\ op = "search" /\ pc = "done"
    /\ date_type = "dateRange" /\ has_from /\ has_to
    /\ Len(sent_params) = 3
    /\ sent_params[2].offset # sent_params[3].offset
    /\ sent_params[3].updatedRange

TypeOK ==
    /\ op \in Ops
    /\ pc \in {"start", "first", "loop", "gather", "fgather", "sent",
               "fetched", "done", "raised"}
    /\ Len(status) = Len(tasks) /\ Len(pages) = Len(tasks)
====
